---- MODULE Spec2Model ----
(***************************************************************************)
(* The export validators of scripts/: the dump parsers                     *)
(* (validate_exports.parse_ast_exports and                                 *)
(* clang_ast_dump_parser.ClangASTDumpParser.parse_exports) as the line     *)
(* scanning state machine they are, and the reconciliation of the parsed   *)
(* catalog with the regex extraction (validate_module, test_module,        *)
(* compare_with_regex); the runs of validate_exports.main over one module  *)
(* or all modules (SpecAll); the regex extractors over source lines and    *)
(* the coverage run of symbol_coverage.main (SpecCov); two calls of one    *)
(* extraction on the same input (SpecTwice); dumps with other using        *)
(* declarations inside the backward window (SpecWindow); the loop of       *)
(* validate_all_modules with the parser run line by line on each module's  *)
(* dump (SpecSeq).                                                         *)
(*                                                                         *)
(* Text.  An identifier is a sequence of atoms (<<"f","x">> is the         *)
(* identifier made of the pieces f and x), so that Python's substring      *)
(* test `a in b` is a real computation (IsInfix) and one identifier can    *)
(* contain another.  A dump line is a record of the pieces of text the     *)
(* scripts look at:                                                        *)
(*   top      the line starts with the glyph `- at column 0                *)
(*   node     the node-kind token (ExportDecl, NamespaceDecl, ...)         *)
(*   lineno   N of the first "line:N" on the line, 0 when there is none    *)
(*   owner    X of the annotation " in std_module.X", <<>> when absent     *)
(*   implicit the word "implicit" is on the line                           *)
(*   kind     the word after "implicit"                                    *)
(*   quoted   the first quoted identifier 'x', <<>> when there is none     *)
(*   trail    the qualified name that ends the line, split at "::"         *)
(* The fixed words (node kinds, "line:", "implicit") share no atom with    *)
(* the identifiers of the model.                                           *)
(***************************************************************************)
EXTENDS Integers, Sequences, FiniteSets, TLC

VARIABLES pc, script, lines, in_export_decl, in_namespace_std,
          current_using_decl, exports, catalog, report,
          args, module_files, module_index, passed, failed, skipped, results,
          exit_status, source, src_exports, usages, coverage, totals, again

\* the dump parser and the reconciliation of one module
parseVars == <<script, lines, in_export_decl, in_namespace_std,
               current_using_decl, exports, catalog, report>>

\* a whole run of a script: its arguments, the modules it discovered, the
\* counters and the summary list of validate_all_modules, the exit status
mainVars == <<args, module_files, module_index, passed, failed, skipped,
              results, exit_status>>

\* the heuristic extraction from a module's source lines and the coverage
\* analysis of symbol_coverage.py (totals: total_used, total_symbols and
\* all_perfect of analyze_all_modules)
covVars == <<source, src_exports, usages, coverage, totals>>

vars == <<pc, parseVars, mainVars, covVars, again>>

\* ------------------------------------------------------------ bounds
\* A dump is an optional preamble (the target's export marker, then the
\* std namespace line) followed by lines of total weight at most MaxLen.
MaxLen == 4

\* ------------------------------------------------------------ text
None == <<>>

Id(a) == <<a>>

\* Python's `a in b` on two identifiers: a is a contiguous part of b.
IsInfix(a, b) ==
    \E k \in 0..(Len(b) - Len(a)) :
        \A n \in 1..Len(a) : b[k + n] = a[n]

\* the module whose interface is validated: module_file.stem
module_name == Id("fmt")

Scripts == {"validate_exports", "clang_ast_dump_parser"}

Mk(top, node, lineno, owner, implicit, kind, quoted, trail) ==
    [top |-> top, node |-> node, lineno |-> lineno, owner |-> owner,
     implicit |-> implicit, kind |-> kind, quoted |-> quoted, trail |-> trail]

\* every identifier written on the line
Idents(l) ==
    {l.owner, l.quoted} \cup {l.trail[n] : n \in 1..Len(l.trail)}

\* `s in line` for an identifier s
Contains(l, s) == \E t \in Idents(l) : IsInfix(s, t)

\* `' std' in line`: the annotation " in std_module.X", or a last token
\* that starts with std (" std", " stdx", " std::f")
HasSpaceStd(l) ==
    \/ l.owner # None
    \/ Len(l.trail) > 0 /\ Len(l.trail[1]) > 0 /\ l.trail[1][1] = "std"

\* ------------------------------------------------------------ lines
\* Python list index j (from 0) of the dump's lines
LineAt(ls, j) == ls[j + 1]

Max(a, b) == IF a >= b THEN a ELSE b

\* `'ExportDecl' in line and module_name in line`
IsExportOfModule(l) ==
    l.node = "ExportDecl" /\ Contains(l, module_name)

\* `line.startswith('`-') and 'ExportDecl' not in line`
ClosesExport(l) ==
    l.top /\ l.node # "ExportDecl"

\* validate_exports: ' std', 'filesystem' or 'ranges' on a NamespaceDecl
\* line; clang_ast_dump_parser: ' std' only
IsStdNamespace(scr, l) ==
    /\ l.node = "NamespaceDecl"
    /\ \/ HasSpaceStd(l)
       \/ /\ scr = "validate_exports"
          /\ \/ Contains(l, Id("filesystem"))
             \/ Contains(l, Id("ranges"))

\* the most namespace segments the import pattern allows between std:: and
\* the final identifier: (?:\w+::)? in validate_exports, none in the other
MaxNested(scr) == IF scr = "validate_exports" THEN 1 ELSE 0

\* r'UsingDecl.*?line:(\d+).*?\s+std::(?:\w+::)?(\w+)\s*$'
UsingMatches(scr, l) ==
    /\ l.node = "UsingDecl"
    /\ l.lineno > 0
    /\ Len(l.trail) >= 2
    /\ Len(l.trail) <= 2 + MaxNested(scr)
    /\ l.trail[1] = Id("std")
    /\ \A n \in 1..Len(l.trail) : l.trail[n] # None

\* using_match.group(2)
UsingName(l) == l.trail[Len(l.trail)]

\* `'UsingShadowDecl' in line and 'implicit' in line`, then
\* r'implicit\s+(\w+)\s+.*?\'(\w+)\''
ShadowMatches(l) ==
    /\ l.node = "UsingShadowDecl"
    /\ l.implicit
    /\ l.kind # ""
    /\ l.quoted # None

\* the window of the backward scan: range(i-1, max(0, i-10), -1)
BackWindow == 10

\* mutant: a window one line shorter
BackRangeShort(i) == (Max(0, i - BackWindow + 1) + 1)..(i - 1)

BackRange(i) == (Max(0, i - BackWindow) + 1)..(i - 1)

\* the lines of the backward scan that end it: a UsingDecl line holding the
\* pending name and a line number (a hit without "line:" is passed over)
BackHits(ls, i, name) ==
    {j \in BackRange(i) :
        /\ LineAt(ls, j).node = "UsingDecl"
        /\ Contains(LineAt(ls, j), name)
        /\ LineAt(ls, j).lineno > 0}

\* the line number the backward scan recovers, 0 when it finds none
BackScan(ls, i, name) ==
    IF BackHits(ls, i, name) = {} THEN 0
    ELSE LET j == CHOOSE h \in BackHits(ls, i, name) :
                      \A g \in BackHits(ls, i, name) : g <= h
         IN  LineAt(ls, j).lineno

\* a record whose kind is a default and not the shadow line's token
ExportInfoDefaultKind(name, kind, line) ==
    [name |-> name, kind |-> "Function", line |-> line]

ExportInfo(name, kind, line) == [name |-> name, kind |-> kind, line |-> line]

\* the correlation without the reset of the pending name
CorrelateKeepPending(loc, ls, i) ==
    LET l == LineAt(ls, i)
        found == BackScan(ls, i, loc.current_using_decl)
    IN  IF l.quoted = loc.current_using_decl /\ found > 0
        THEN [loc EXCEPT !.exports = Append(@, ExportInfo(l.quoted, l.kind, found))]
        ELSE loc

\* the correlation without the comparison of the shadow line's name with the
\* pending name
CorrelateAnyName(loc, ls, i) ==
    LET l == LineAt(ls, i)
        found == BackScan(ls, i, loc.current_using_decl)
    IN  [loc EXCEPT
            !.exports = IF found > 0
                        THEN Append(@, ExportInfo(l.quoted, l.kind, found))
                        ELSE @,
            !.current_using_decl = None]

\* the shadow branch: on a shadow line for the pending name, append when the
\* backward scan recovers the line, and clear the pending name either way
Correlate(loc, ls, i) ==
    LET l == LineAt(ls, i)
        found == BackScan(ls, i, loc.current_using_decl)
    IN  IF l.quoted = loc.current_using_decl
        THEN [loc EXCEPT
                !.exports = IF found > 0
                            THEN Append(@, ExportInfo(l.quoted, l.kind, found))
                            ELSE @,
                !.current_using_decl = None]
        ELSE loc

\* the iteration without `if not in_export_decl: continue`
LoopBodyUngated(loc, ls, i, scr) ==
    LET l == LineAt(ls, i) IN
    IF IsExportOfModule(l)
    THEN [loc EXCEPT !.in_export_decl = TRUE]
    ELSE IF loc.in_export_decl /\ ClosesExport(l)
    THEN [loc EXCEPT !.in_export_decl = FALSE]
    ELSE IF IsStdNamespace(scr, l)
    THEN [loc EXCEPT !.in_namespace_std = TRUE]
    ELSE IF ~loc.in_namespace_std
    THEN loc
    ELSE IF UsingMatches(scr, l)
    THEN [loc EXCEPT !.current_using_decl = UsingName(l)]
    ELSE IF loc.current_using_decl # None /\ ShadowMatches(l)
    THEN Correlate(loc, ls, i)
    ELSE loc

\* one iteration of `for i, line in enumerate(lines)`
LoopBody(loc, ls, i, scr) ==
    LET l == LineAt(ls, i) IN
    IF IsExportOfModule(l)
    THEN [loc EXCEPT !.in_export_decl = TRUE]
    ELSE IF loc.in_export_decl /\ ClosesExport(l)
    THEN [loc EXCEPT !.in_export_decl = FALSE]
    ELSE IF ~loc.in_export_decl
    THEN loc
    ELSE IF IsStdNamespace(scr, l)
    THEN [loc EXCEPT !.in_namespace_std = TRUE]
    ELSE IF ~loc.in_namespace_std
    THEN loc
    ELSE IF UsingMatches(scr, l)
    THEN [loc EXCEPT !.current_using_decl = UsingName(l)]
    ELSE IF loc.current_using_decl # None /\ ShadowMatches(l)
    THEN Correlate(loc, ls, i)
    ELSE loc

\* iterations i .. n-1 of the loop
RECURSIVE ScanLines(_, _, _, _, _)
ScanLines(loc, ls, i, n, scr) ==
    IF i >= n THEN loc
    ELSE ScanLines(LoopBody(loc, ls, i, scr), ls, i + 1, n, scr)

\* mutant: no deduplication
DedupNone(exps, seen) == exps

\* mutant: the last entry of each name is kept
RECURSIVE DedupLast(_, _)
DedupLast(exps, seen) ==
    IF exps = <<>> THEN <<>>
    ELSE IF \E n \in 2..Len(exps) : exps[n].name = Head(exps).name
    THEN DedupLast(Tail(exps), seen)
    ELSE <<Head(exps)>> \o DedupLast(Tail(exps), seen)

\* "Deduplicate by name": the first entry of each name is kept
RECURSIVE Dedup(_, _)
Dedup(exps, seen) ==
    IF exps = <<>> THEN <<>>
    ELSE IF Head(exps).name \in seen
    THEN Dedup(Tail(exps), seen)
    ELSE <<Head(exps)>> \o Dedup(Tail(exps), seen \cup {Head(exps).name})

\* Python's order of str on identifiers spelt with the letters below
Letters == <<"f", "g", "x">>

Rank(a) == CHOOSE k \in 1..Len(Letters) : Letters[k] = a

RECURSIVE StrLess(_, _)
StrLess(a, b) ==
    IF b = <<>> THEN FALSE
    ELSE IF a = <<>> THEN TRUE
    ELSE IF Head(a) # Head(b) THEN Rank(Head(a)) < Rank(Head(b))
    ELSE StrLess(Tail(a), Tail(b))

\* sorted(unique_exports, key=lambda x: x.name): a stable insertion
RECURSIVE InsertByName(_, _)
InsertByName(e, s) ==
    IF s = <<>> THEN <<e>>
    ELSE IF StrLess(e.name, Head(s).name) THEN <<e>> \o s
    ELSE <<Head(s)>> \o InsertByName(e, Tail(s))

\* mutant: the deduplicated list is returned as the scan left it
SortedByNameNot(s) == s

RECURSIVE SortedByName(_)
SortedByName(s) ==
    IF s = <<>> THEN <<>>
    ELSE InsertByName(s[Len(s)], SortedByName(SubSeq(s, 1, Len(s) - 1)))

\* what the parser returns: parse_ast_exports sorts, parse_exports does not
Returned(exps, scr) ==
    IF scr = "validate_exports"
    THEN SortedByName(Dedup(exps, {}))
    ELSE Dedup(exps, {})

\* ------------------------------------------------------------ reconciliation
SetMax(a, b) == IF a >= b THEN a ELSE b

\* the smaller set's size as the denominator
MatchPctMin(both, a, b) ==
    LET least == IF Cardinality(a) <= Cardinality(b)
                 THEN Cardinality(a) ELSE Cardinality(b)
    IN  IF least = 0
        THEN <<"ZeroDivisionError">>
        ELSE <<Cardinality(both) * 100, least>>

\* mutant: the first set's size as the denominator
MatchPctFirst(both, a, b) ==
    IF Cardinality(a) = 0
    THEN <<"ZeroDivisionError">>
    ELSE <<Cardinality(both) * 100, Cardinality(a)>>

\* len(both) / max(len(a), len(b)) * 100 as the fraction <<numerator,
\* denominator>>; Python raises ZeroDivisionError on a zero denominator
NoPct == <<>>
ZeroDivision == <<"ZeroDivisionError">>

MatchPct(both, a, b) ==
    IF SetMax(Cardinality(a), Cardinality(b)) = 0
    THEN ZeroDivision
    ELSE <<Cardinality(both) * 100, SetMax(Cardinality(a), Cardinality(b))>>

\* what one run leaves behind: the entry point, whether a dump was parsed,
\* the arguments (list_only, and heuristic: the set the module's source
\* holds for the regex extraction), the value returned and what was printed
NoReport ==
    [by |-> "none", dump |-> FALSE, list_only |-> FALSE, heuristic |-> {},
     verdict |-> "none", match |-> "none",
     clang_names |-> {}, regex_exports |-> {}, both |-> {},
     only_clang |-> {}, only_regex |-> {}, match_pct |-> NoPct]

\* validate_module from `both = clang_names & regex_exports` on
CompareValidate(clang_names, regex_exports) ==
    LET both == clang_names \cap regex_exports
        only_clang == clang_names \ regex_exports
        only_regex == regex_exports \ clang_names
    IN  [NoReport EXCEPT
            !.by = "validate_module", !.dump = TRUE,
            !.clang_names = clang_names, !.regex_exports = regex_exports,
            !.both = both, !.only_clang = only_clang, !.only_regex = only_regex,
            !.match = IF clang_names = regex_exports THEN "exact" ELSE "mismatch",
            !.match_pct = IF clang_names = regex_exports THEN NoPct
                          ELSE MatchPct(both, clang_names, regex_exports),
            !.verdict = IF clang_names = regex_exports THEN "pass" ELSE "fail"]

\* compare_with_regex: prints the comparison, returns nothing
CompareWithRegex(clang_names, regex_exports) ==
    LET only_regex == regex_exports \ clang_names
        only_clang == clang_names \ regex_exports
        both == regex_exports \cap clang_names
    IN  [NoReport EXCEPT
            !.by = "compare_with_regex", !.dump = TRUE,
            !.clang_names = clang_names, !.regex_exports = regex_exports,
            !.both = both, !.only_clang = only_clang, !.only_regex = only_regex,
            !.match = IF regex_exports = clang_names THEN "exact" ELSE "mismatch",
            !.match_pct = IF regex_exports = clang_names THEN NoPct
                          ELSE MatchPct(both, regex_exports, clang_names)]

\* test_module from `if regex_exports == clang_names` on
CompareTest(clang_names, regex_exports) ==
    [NoReport EXCEPT
        !.by = "test_module", !.dump = TRUE,
        !.clang_names = clang_names, !.regex_exports = regex_exports,
        !.match = IF regex_exports = clang_names THEN "exact" ELSE "mismatch",
        !.only_regex = IF regex_exports = clang_names THEN {}
                       ELSE regex_exports \ clang_names,
        !.only_clang = IF regex_exports = clang_names THEN {}
                       ELSE clang_names \ regex_exports,
        !.verdict = IF regex_exports = clang_names THEN "pass" ELSE "fail"]

NamesOf(cat) == {cat[n].name : n \in 1..Len(cat)}

\* validate_module after parse_ast_exports has returned
ValidateModule(cat, list_only, heuristic) ==
    [(IF cat = <<>>
      THEN [NoReport EXCEPT !.by = "validate_module", !.dump = TRUE,
                            !.verdict = "fail"]
      ELSE IF list_only
      THEN [NoReport EXCEPT !.by = "validate_module", !.dump = TRUE,
                            !.clang_names = NamesOf(cat), !.verdict = "pass"]
      ELSE CompareValidate(NamesOf(cat), heuristic))
     EXCEPT !.list_only = list_only, !.heuristic = heuristic]

\* test_module after extract_exports has returned
TestModule(cat, heuristic) ==
    [(IF cat = <<>>
      THEN [NoReport EXCEPT !.by = "test_module", !.dump = TRUE,
                            !.verdict = "fail"]
      ELSE CompareTest(NamesOf(cat), heuristic))
     EXCEPT !.heuristic = heuristic]

\* clang_ast_dump_parser.main after extract_exports has returned
ParserMain(cat, heuristic) ==
    [(IF cat = <<>>
      THEN [NoReport EXCEPT !.by = "main", !.dump = TRUE]
      ELSE CompareWithRegex(NamesOf(cat), heuristic))
     EXCEPT !.heuristic = heuristic]

\* ------------------------------------------------------------ inputs
F == <<"f">>
G == <<"g">>
FX == <<"f", "x">>

Symbols == {F, G, FX}

\* a line with nothing the scan recognises (the one line of an empty dump)
OtherLine == Mk(FALSE, "", 0, None, FALSE, "", None, <<>>)

ExportT == Mk(FALSE, "ExportDecl", 1, module_name, FALSE, "", None, <<>>)

\* a last top-level sibling that is no export: "`-FunctionDecl ..."
TopOther == Mk(TRUE, "FunctionDecl", 0, None, FALSE, "", None, <<>>)

NsStd == Mk(FALSE, "NamespaceDecl", 1, module_name, FALSE, "", None, <<Id("std")>>)

Use(name, n) ==
    Mk(FALSE, "UsingDecl", n, module_name, FALSE, "", None, <<Id("std"), name>>)

Shadow(name, kind) ==
    Mk(FALSE, "UsingShadowDecl", 0, module_name, TRUE, kind, name, <<>>)

CoreLines ==
    {ExportT, TopOther, NsStd, Use(F, 3), Use(G, 5),
     Shadow(F, "Function"), Shadow(F, "FunctionTemplate"),
     Shadow(G, "CXXRecord"), OtherLine}

ExportOther ==
    Mk(FALSE, "ExportDecl", 1, Id("vec"), FALSE, "", None, <<>>)

\* namespace lines: "... stdx" and "... detail" and "... filesystem" with no
\* module annotation, and "... in std_module.fmt ... detail"
NsStdx == Mk(FALSE, "NamespaceDecl", 1, None, FALSE, "", None, <<<<"std", "x">>>>)

NsDetail == Mk(FALSE, "NamespaceDecl", 1, None, FALSE, "", None, <<Id("detail")>>)

NsDetailOwned ==
    Mk(FALSE, "NamespaceDecl", 1, module_name, FALSE, "", None, <<Id("detail")>>)

NsFs == Mk(FALSE, "NamespaceDecl", 1, None, FALSE, "", None, <<Id("filesystem")>>)

ScopeLines ==
    {ExportT, ExportOther, TopOther, NsStd, NsStdx, NsDetail, NsDetailOwned,
     NsFs, Use(F, 3), Shadow(F, "Function"), OtherLine}

\* runs of unrecognised lines that reach the edge of the backward window
RunLens == {BackWindow - 2, BackWindow - 1}

OtherRun(k) == [n \in 1..k |-> OtherLine]

Singles(alpha) == {<<l>> : l \in alpha}

Chunks(alpha) == Singles(alpha) \cup {OtherRun(k) : k \in RunLens}

PreambleLen(ls) ==
    IF Len(ls) >= 1 /\ ls[1] = ExportT
    THEN IF Len(ls) >= 2 /\ ls[2] = NsStd THEN 2 ELSE 1
    ELSE 0

RECURSIVE RunEnd(_, _)
RunEnd(ls, k) ==
    IF k < Len(ls) /\ ls[k + 1] = OtherLine THEN RunEnd(ls, k + 1) ELSE k

\* a line weighs 1, and so does a whole run of RunLens unrecognised lines
RECURSIVE Weight(_, _)
Weight(ls, k) ==
    IF k > Len(ls) THEN 0
    ELSE IF ls[k] = OtherLine
    THEN LET e == RunEnd(ls, k)
         IN  (IF e - k + 1 \in RunLens THEN 1 ELSE e - k + 1) + Weight(ls, e + 1)
    ELSE 1 + Weight(ls, k + 1)

InBounds(ls) == Weight(ls, PreambleLen(ls) + 1) <= MaxLen

\* ------------------------------------------------------------ the machine
\* mutant: the scan starts inside an export block
InitLocalsInExport ==
    [in_export_decl |-> TRUE, in_namespace_std |-> FALSE,
     current_using_decl |-> <<>>, exports |-> <<>>]

\* the parser's locals before the loop
InitLocals ==
    [in_export_decl |-> FALSE, in_namespace_std |-> FALSE,
     current_using_decl |-> None, exports |-> <<>>]

Locals ==
    [in_export_decl |-> in_export_decl, in_namespace_std |-> in_namespace_std,
     current_using_decl |-> current_using_decl, exports |-> exports]

\* the exit status of a process that has not ended, and of one that has
NotExited == <<>>

ExitStatus(n) == <<n>>

NoArgs == [prog |-> "none"]

\* no run of a script's main is under way
MainIdle ==
    /\ args = NoArgs
    /\ module_files = <<>>
    /\ module_index = 0
    /\ passed = 0
    /\ failed = 0
    /\ skipped = 0
    /\ results = <<>>
    /\ exit_status = NotExited

NoCoverage == [by |-> "none"]

NoTotals ==
    [total_used |-> 0, total_symbols |-> 0, all_perfect |-> TRUE,
     overall_pct |-> NoPct]

\* no source file has been read
CovIdle ==
    /\ source = <<>>
    /\ src_exports = {}
    /\ usages = <<>>
    /\ coverage = NoCoverage
    /\ totals = NoTotals

\* no second call of an extraction has been made
NotAgain ==
    [parsed |-> FALSE, catalog |-> <<>>, extracted |-> FALSE,
     regex_exports |-> {}]

Init ==
    /\ pc = "start"
    /\ script \in Scripts
    /\ lines = <<>>
    /\ in_export_decl = InitLocals.in_export_decl
    /\ in_namespace_std = InitLocals.in_namespace_std
    /\ current_using_decl = InitLocals.current_using_decl
    /\ exports = InitLocals.exports
    /\ catalog = <<>>
    /\ report = NoReport
    /\ MainIdle
    /\ CovIdle
    /\ again = NotAgain

\* get_clang_ast_dump and `if not ast_dump`: None on an exit status other
\* than 0 and 1, a timeout or a missing compiler; get_ast_dump returns the
\* output whatever the status, "" on a timeout or a missing compiler
DumpUsable(scr, outcome, returncode, empty) ==
    /\ outcome = "exited"
    /\ scr = "validate_exports" => returncode \in {0, 1}
    /\ ~empty

GetDump ==
    /\ pc = "start"
    /\ \E outcome \in {"exited", "timeout", "notfound"},
          returncode \in {0, 1, 2}, empty \in BOOLEAN :
          IF DumpUsable(script, outcome, returncode, empty)
          THEN /\ pc' = "scan"
               /\ report' = report
          ELSE /\ pc' = "done"
               /\ report' = [NoReport EXCEPT
                    !.by = IF script = "validate_exports"
                           THEN "validate_module" ELSE "test_module",
                    !.verdict = "fail"]
    /\ UNCHANGED <<script, lines, in_export_decl, in_namespace_std,
                   current_using_decl, exports, catalog>>
    /\ UNCHANGED <<mainVars, covVars, again>>

\* the loop over the next line(s) of the dump
ScanChunk(chunks) ==
    /\ pc = "scan"
    /\ \E c \in chunks :
          /\ InBounds(lines \o c)
          /\ lines' = lines \o c
          /\ LET n == ScanLines(Locals, lines \o c, Len(lines),
                                Len(lines) + Len(c), script)
             IN  /\ in_export_decl' = n.in_export_decl
                 /\ in_namespace_std' = n.in_namespace_std
                 /\ current_using_decl' = n.current_using_decl
                 /\ exports' = n.exports
    /\ UNCHANGED <<pc, script, catalog, report>>
    /\ UNCHANGED <<mainVars, covVars, again>>

\* the end of the dump: deduplicate, sort, return (ast_dump.split on newlines
\* has at least one element, so the loop has run at least once)
Finish ==
    /\ pc = "scan"
    /\ Len(lines) >= 1
    /\ pc' = "parsed"
    /\ catalog' = Returned(exports, script)
    /\ UNCHANGED <<script, lines, in_export_decl, in_namespace_std,
                   current_using_decl, exports, report>>
    /\ UNCHANGED <<mainVars, covVars, again>>

\* the caller has the catalog and the parser's locals are gone
Return(r) ==
    /\ pc' = "done"
    /\ report' = r
    /\ lines' = <<>>
    /\ in_export_decl' = InitLocals.in_export_decl
    /\ in_namespace_std' = InitLocals.in_namespace_std
    /\ current_using_decl' = InitLocals.current_using_decl
    /\ exports' = InitLocals.exports
    /\ UNCHANGED <<script, catalog>>
    /\ UNCHANGED <<mainVars, covVars, again>>

\* validate_exports.validate_module, from the parsed catalog on
ReconcileValidate ==
    /\ pc = "parsed"
    /\ script = "validate_exports"
    /\ \E heuristic \in SUBSET Symbols, list_only \in BOOLEAN :
          Return(ValidateModule(catalog, list_only, heuristic))

\* the prototype's two callers of ClangASTDumpParser.extract_exports
ReconcilePrototype ==
    /\ pc = "parsed"
    /\ script = "clang_ast_dump_parser"
    /\ \E heuristic \in SUBSET Symbols :
          \/ Return(TestModule(catalog, heuristic))
          \/ Return(ParserMain(catalog, heuristic))

Drive(chunks) ==
    \/ GetDump
    \/ ScanChunk(chunks)
    \/ Finish
    \/ ReconcileValidate
    \/ ReconcilePrototype

\* dumps over the lines of correlation: imports, shadows, overloads, runs
Next == Drive(Chunks(CoreLines))

Spec == Init /\ [][Next]_vars

\* dumps over the lines of scope: other modules' exports, other namespaces
NextScope == Drive(Singles(ScopeLines))

SpecScope == Init /\ [][NextScope]_vars

\* the locals before iteration k, recomputed from the dump
LocAt(k) == ScanLines(InitLocals, lines, 0, k, script)

\* ------------------------------------------------------------ the dump, read as the specification reads it
Idx == 0..(Len(lines) - 1)

L(j) == LineAt(lines, j)

\* an export marker whose trailing text holds the target module's name
TargetMarker(l) == l.node = "ExportDecl" /\ IsInfix(module_name, l.owner)

\* a namespace-declaration line of the qualifying namespace std
StdNamespaceLine(l) == l.node = "NamespaceDecl" /\ l.trail = <<Id("std")>>

\* an import line "UsingDecl ... line:N ... std::S"
ImportLine(l) ==
    l.node = "UsingDecl" /\ l.lineno > 0 /\ Len(l.trail) = 2 /\ l.trail[1] = Id("std")

\* an implicit shadow-declaration line for the name S
ShadowLineFor(l, S) ==
    l.node = "UsingShadowDecl" /\ l.implicit /\ l.kind # "" /\ l.quoted = S

\* a new top-level sibling that is no export marker
TopLevelSibling(l) == l.top /\ l.node # "ExportDecl"

UsingIdx == {j \in Idx : L(j).node = "UsingDecl"}

\* u is the dump's one import line, s the first shadow line for its name
\* after it and within the window, both inside one export block of the
\* target module and after a line of the namespace std in that block
PairAt(u, s) ==
    /\ UsingIdx = {u}
    /\ ImportLine(L(u))
    /\ u < s
    /\ ShadowLineFor(L(s), L(u).trail[2])
    /\ \A k \in (u + 1)..(s - 1) : ~ShadowLineFor(L(k), L(u).trail[2])
    /\ s - u < BackWindow
    /\ \E e \in 0..(u - 1) :
          /\ TargetMarker(L(e))
          /\ \E n \in (e + 1)..(u - 1) : StdNamespaceLine(L(n))
          /\ \A k \in (e + 1)..s : ~TopLevelSibling(L(k))

\* C1: a dump with exactly one import line for S and its matching shadow
\* line of kind K within the backward window, inside the target module's
\* export block and the namespace std, yields the catalog of exactly one
\* symbol, named S and of kind K.
C1_OnePairOneSymbol ==
    pc = "parsed" =>
        \A u \in UsingIdx : \A s \in Idx :
            PairAt(u, s) =>
                /\ Len(catalog) = 1
                /\ catalog[1].name = L(u).trail[2]
                /\ catalog[1].kind = L(s).kind

\* the pair sits at the far edge of the window: BackWindow - 2 lines between
C1_Witness ==
    /\ pc = "parsed"
    /\ \E u \in UsingIdx :
          u + BackWindow - 1 \in Idx /\ PairAt(u, u + BackWindow - 1)

MarkerIdx == {j \in Idx : IsExportOfModule(L(j))}

\* C2: a dump (the empty dump included) in which no line is an export marker
\* for the target module yields the empty catalog; the scan ends normally.
C2_NoMarkerEmptyCatalog ==
    (pc = "parsed" /\ MarkerIdx = {}) => catalog = <<>>

\* a dump without a marker that still holds a namespace line, an import line
\* and its shadow line
C2_Witness ==
    /\ pc = "parsed"
    /\ MarkerIdx = {}
    /\ \E n \in Idx : \E u \in Idx : \E s \in Idx :
          /\ n < u /\ u < s
          /\ StdNamespaceLine(L(n))
          /\ ImportLine(L(u))
          /\ ShadowLineFor(L(s), L(u).trail[2])

\* C3: the returned catalog holds each symbol name at most once, however
\* many import/shadow pairs of the dump resolve to that name.
C3_NamesUnique ==
    pc = "parsed" =>
        \A a \in 1..Len(catalog) : \A b \in 1..Len(catalog) :
            catalog[a].name = catalog[b].name => a = b

\* two emissions of one name were made during the scan
C3_Witness ==
    /\ pc = "parsed"
    /\ \E a \in 1..Len(exports) : \E b \in 1..Len(exports) :
          a < b /\ exports[a].name = exports[b].name

\* the first emission of a name, in scan order
FirstOf(name) ==
    exports[CHOOSE a \in 1..Len(exports) :
                /\ exports[a].name = name
                /\ \A b \in 1..(a - 1) : exports[b].name # name]

\* C4: of several emissions of one name, the catalog keeps the kind and the
\* declaration line of the first in scan order and no other entry.
C4_FirstEmissionWins ==
    pc = "parsed" =>
        /\ \A c \in 1..Len(catalog) : catalog[c] = FirstOf(catalog[c].name)
        /\ \A a \in 1..Len(exports) :
              \E c \in 1..Len(catalog) : catalog[c].name = exports[a].name
        /\ Len(catalog) = Cardinality({exports[a].name : a \in 1..Len(exports)})

\* two emissions of one name with different kinds
C4_Witness ==
    /\ pc = "parsed"
    /\ \E a \in 1..Len(exports) : \E b \in 1..Len(exports) :
          /\ a < b
          /\ exports[a].name = exports[b].name
          /\ exports[a].kind # exports[b].kind

\* iteration k reaches the correlation step: a shadow line for the pending
\* name, seen inside the export block and the namespace
Resolves(k) ==
    /\ LocAt(k).in_export_decl
    /\ LocAt(k).in_namespace_std
    /\ LocAt(k).current_using_decl # None
    /\ ~TopLevelSibling(L(k))
    /\ ShadowLineFor(L(k), LocAt(k).current_using_decl)

\* C5: a shadow line that matches the pending name S emits S even when the
\* backward scan finds no import line (then with the declaration line
\* unset, 0): the symbol is never dropped.
C5_NeverDropped ==
    pc = "scan" =>
        \A k \in Idx :
            Resolves(k) =>
                /\ Len(LocAt(k + 1).exports) = Len(LocAt(k).exports) + 1
                /\ LocAt(k + 1).exports[Len(LocAt(k + 1).exports)].name = L(k).quoted
                /\ BackHits(lines, k, L(k).quoted) = {} =>
                      LocAt(k + 1).exports[Len(LocAt(k + 1).exports)].line = 0

\* C6: when the export block closes the whole scope state is reset: in every
\* reachable state in-namespace implies in-export-block, and no pending name
\* survives outside an export block.
C6_ScopeResetOnClose ==
    pc = "scan" =>
        /\ in_namespace_std => in_export_decl
        /\ current_using_decl # None => in_export_decl

\* line k lies in the export block of another module: the nearest export
\* marker before it names another module and no top-level sibling follows it
InOtherBlock(k) ==
    \E j \in 0..(k - 1) :
        /\ L(j).node = "ExportDecl"
        /\ ~TargetMarker(L(j))
        /\ \A n \in (j + 1)..k :
              L(n).node # "ExportDecl" /\ ~TopLevelSibling(L(n))

\* C7: the scan enters the export block only on an export marker that names
\* the target module, and no line of another module's export block, before
\* or after the target's, adds a symbol.
C7_OnlyTargetBlock ==
    pc = "scan" =>
        \A k \in Idx :
            /\ (~LocAt(k).in_export_decl /\ LocAt(k + 1).in_export_decl)
                  => TargetMarker(L(k))
            /\ InOtherBlock(k) => LocAt(k + 1).exports = LocAt(k).exports

QualifyingNames == {<<Id("std")>>, <<Id("filesystem")>>, <<Id("ranges")>>}

\* C8: the in-namespace state is entered only by a namespace-declaration
\* line whose name is exactly std or an allow-listed nested namespace.
C8_NamespaceEntry ==
    pc = "scan" =>
        \A k \in Idx :
            (~LocAt(k).in_namespace_std /\ LocAt(k + 1).in_namespace_std)
                => /\ L(k).node = "NamespaceDecl"
                   /\ L(k).trail \in QualifyingNames

\* C9: for a module whose dump was produced, the verdict is pass exactly when
\* both exclusive remainders of the authoritative and the heuristic name set
\* are empty.
C9_PassIffEqual ==
    (/\ pc = "done"
     /\ report.dump
     /\ report.by \in {"validate_module", "test_module"}
     /\ ~report.list_only)
    => (report.verdict = "pass"
          <=> /\ NamesOf(catalog) \ report.heuristic = {}
              /\ report.heuristic \ NamesOf(catalog) = {})

\* the same comparison with its two sets exchanged
Swapped(r) ==
    CASE r.by = "validate_module" -> CompareValidate(r.regex_exports, r.clang_names)
      [] r.by = "compare_with_regex" -> CompareWithRegex(r.regex_exports, r.clang_names)
      [] r.by = "test_module" -> CompareTest(r.regex_exports, r.clang_names)

\* C10: comparing B against A gives the same intersection, match ratio and
\* exact-match verdict as comparing A against B, and the two exclusive
\* remainders exchanged.
C10_Symmetric ==
    (pc = "done" /\ report.match # "none") =>
        /\ Swapped(report).both = report.both
        /\ Swapped(report).match_pct = report.match_pct
        /\ Swapped(report).match = report.match
        /\ Swapped(report).verdict = report.verdict
        /\ Swapped(report).only_clang = report.only_regex
        /\ Swapped(report).only_regex = report.only_clang

\* a comparison with a ratio: a common name and a name on either side only
C10_Witness ==
    /\ pc = "done"
    /\ report.match = "mismatch"
    /\ report.match_pct # NoPct
    /\ report.both # {}
    /\ report.only_clang # {}
    /\ report.only_regex # {}

\* ------------------------------------------------------------ validate_exports.main
\* the most modules a run discovers in src/
MaxModules == 3

\* the parser holds no dump
ParserIdle(scr) ==
    /\ script = scr
    /\ lines = <<>>
    /\ in_export_decl = InitLocals.in_export_decl
    /\ in_namespace_std = InitLocals.in_namespace_std
    /\ current_using_decl = InitLocals.current_using_decl
    /\ exports = InitLocals.exports
    /\ catalog = <<>>
    /\ report = NoReport

\* the catalogs parse_ast_exports returns and the sets extract_regex_exports
\* returns for the modules of a run
Catalogs == {<<>>, <<ExportInfo(F, "Function", 3)>>}

Heuristics == {{}, {F}, {F, G}}

\* what validate_module meets for one module file: how subprocess.run ended
\* ("raised": an exception other than the two that are caught), the
\* compiler's exit status, whether its output was empty, and, where the dump
\* is used, the catalog and the regex set of the module
ModuleRuns ==
    {m \in [outcome : {"exited", "timeout", "notfound", "raised"},
            returncode : {0, 1, 2}, empty : BOOLEAN,
            cat : Catalogs, heuristic : Heuristics] :
        /\ m.outcome # "exited" => m.returncode = 0 /\ m.empty
        /\ ~DumpUsable("validate_exports", m.outcome, m.returncode, m.empty)
              => m.cat = <<>> /\ m.heuristic = {}}

\* `print("Failed to get AST dump"); return False`
DumpFailed == [NoReport EXCEPT !.by = "validate_module", !.verdict = "fail"]

\* validate_module(module_file, list_only), when it returns
ValidateModuleRun(m, list_only) ==
    IF DumpUsable("validate_exports", m.outcome, m.returncode, m.empty)
    THEN ValidateModule(m.cat, list_only, m.heuristic)
    ELSE DumpFailed

\* the try block of the loop: the value of `result`, or the exception
TryValidate(m, list_only) ==
    IF m.outcome = "raised" THEN "Exception"
    ELSE IF ValidateModuleRun(m, list_only).verdict = "pass" THEN "True"
    ELSE "False"

\* mutant: an exception is printed but not counted
TallyNoSkip(t, name, result) ==
    CASE result = "True" ->
            [t EXCEPT !.passed = @ + 1,
                      !.results = Append(@, [name |-> name, status |-> "passed"])]
      [] result = "False" ->
            [t EXCEPT !.failed = @ + 1,
                      !.results = Append(@, [name |-> name, status |-> "failed"])]
      [] OTHER -> t

\* the counters and the summary list after one module ("passed", "failed"
\* and "skipped" are the three marks of the summary)
Tally(t, name, result) ==
    CASE result = "True" ->
            [t EXCEPT !.passed = @ + 1,
                      !.results = Append(@, [name |-> name, status |-> "passed"])]
      [] result = "False" ->
            [t EXCEPT !.failed = @ + 1,
                      !.results = Append(@, [name |-> name, status |-> "failed"])]
      [] OTHER ->
            [t EXCEPT !.skipped = @ + 1,
                      !.results = Append(@, [name |-> name, status |-> "skipped"])]

\* mutant: a skipped module makes the status non-zero as well
ExitCodeSkipped(list_only, p, f, s) ==
    IF list_only THEN 0 ELSE IF f = 0 /\ s = 0 THEN 0 ELSE 1

\* main after validate_all_modules has returned (passed, failed, skipped)
ExitCode(list_only, p, f, s) ==
    IF list_only THEN 0 ELSE IF f = 0 THEN 0 ELSE 1

InitAll ==
    /\ pc = "main"
    /\ ParserIdle("validate_exports")
    /\ MainIdle
    /\ CovIdle
    /\ again = NotAgain

\* the process ends at the return statement `at` of main with status n
Exit(at, n) ==
    /\ pc' = at
    /\ exit_status' = ExitStatus(n)

\* main down to `if args.module`: the arguments, `clang --version`, src/
MainChecks ==
    /\ pc = "main"
    /\ \E module \in BOOLEAN, list_only \in BOOLEAN,
          clang_ok \in BOOLEAN, src_exists \in BOOLEAN :
          /\ args' = [prog |-> "validate_exports", module |-> module,
                      list_only |-> list_only]
          /\ IF clang_ok /\ src_exists
             THEN /\ pc' = IF module THEN "single" ELSE "all"
                  /\ exit_status' = exit_status
             ELSE Exit("return_checks", 1)
    /\ UNCHANGED <<module_files, module_index, passed, failed, skipped, results>>
    /\ UNCHANGED <<parseVars, covVars, again>>

\* one module named on the command line; an exception ends the process
\* with a traceback and status 1
SingleModule ==
    /\ pc = "single"
    /\ \E exists \in BOOLEAN, m \in ModuleRuns :
          IF ~exists
          THEN Exit("return_single", 1) /\ module_files' = module_files
          ELSE /\ module_files' = <<m>>
               /\ Exit("return_single",
                       IF TryValidate(m, args.list_only) = "True" THEN 0 ELSE 1)
    /\ UNCHANGED <<args, module_index, passed, failed, skipped, results>>
    /\ UNCHANGED <<parseVars, covVars, again>>

\* validate_all_modules down to the loop: the sorted module files
Discover ==
    /\ pc = "all"
    /\ \E n \in 0..MaxModules :
          \E found \in [1..n -> ModuleRuns] : module_files' = found
    /\ module_index' = 0
    /\ passed' = 0
    /\ failed' = 0
    /\ skipped' = 0
    /\ results' = <<>>
    /\ pc' = "loop"
    /\ UNCHANGED <<args, exit_status>>
    /\ UNCHANGED <<parseVars, covVars, again>>

\* one iteration of `for module_file in module_files`
ValidateNext ==
    /\ pc = "loop"
    /\ module_index < Len(module_files)
    /\ LET t == Tally([passed |-> passed, failed |-> failed,
                       skipped |-> skipped, results |-> results],
                      module_index + 1,
                      TryValidate(module_files[module_index + 1], args.list_only))
       IN  /\ passed' = t.passed
           /\ failed' = t.failed
           /\ skipped' = t.skipped
           /\ results' = t.results
    /\ module_index' = module_index + 1
    /\ UNCHANGED <<pc, args, module_files, exit_status>>
    /\ UNCHANGED <<parseVars, covVars, again>>

\* the loop is over: the summary, the return to main and main's status
MainReturn ==
    /\ pc = "loop"
    /\ module_index = Len(module_files)
    /\ Exit("return_all", ExitCode(args.list_only, passed, failed, skipped))
    /\ UNCHANGED <<args, module_files, module_index, passed, failed, skipped,
                   results>>
    /\ UNCHANGED <<parseVars, covVars, again>>

NextAll ==
    \/ MainChecks
    \/ SingleModule
    \/ Discover
    \/ ValidateNext
    \/ MainReturn

SpecAll == InitAll /\ [][NextAll]_vars

\* ------------------------------------------------------------ the run, read as the specification reads it
\* the dump of module run m was parsed and held no exported symbol
EmptyExtraction(m) ==
    /\ DumpUsable("validate_exports", m.outcome, m.returncode, m.empty)
    /\ m.cat = <<>>

\* the module of the k-th entry of the summary
ModuleOf(k) == module_files[results[k].name]

\* C11: a module whose dump is parsed but yields no exported symbol is a
\* warning: it is not counted as failed, and a run whose modules are all of
\* that sort ends with status 0.
C11_EmptyIsWarning ==
    /\ \A k \in 1..Len(results) :
          EmptyExtraction(ModuleOf(k)) => results[k].status # "failed"
    /\ (/\ pc \in {"return_single", "return_all"}
        /\ module_files # <<>>
        /\ \A k \in 1..Len(module_files) : EmptyExtraction(module_files[k]))
       => exit_status = ExitStatus(0)

\* C12: in an aggregate run every discovered module is validated exactly
\* once, in order, and recorded as exactly one of passed, failed and skipped,
\* whatever happened to the modules before it; on return the three counters
\* add up to the number of modules discovered.
C12_EveryModuleOnce ==
    /\ pc \in {"loop", "return_all"} =>
          /\ Len(results) = module_index
          /\ passed + failed + skipped = module_index
          /\ \A k \in 1..Len(results) :
                /\ results[k].name = k
                /\ results[k].status \in {"passed", "failed", "skipped"}
          /\ passed = Cardinality({k \in 1..Len(results) : results[k].status = "passed"})
          /\ failed = Cardinality({k \in 1..Len(results) : results[k].status = "failed"})
          /\ skipped = Cardinality({k \in 1..Len(results) : results[k].status = "skipped"})
    /\ pc = "return_all" =>
          /\ module_index = Len(module_files)
          /\ passed + failed + skipped = Len(module_files)

\* a module failed, the next raised an exception, and the one after passed
C12_Witness ==
    /\ pc = "return_all"
    /\ Len(module_files) = MaxModules
    /\ \E k \in 1..(Len(results) - 2) :
          /\ results[k].status = "failed"
          /\ results[k + 1].status = "skipped"
          /\ module_files[k + 1].outcome = "raised"
          /\ results[k + 2].status = "passed"

\* the two extractions of module run m were made and disagree
Disagree(m) ==
    /\ DumpUsable("validate_exports", m.outcome, m.returncode, m.empty)
    /\ NamesOf(m.cat) # m.heuristic

\* C13: an aggregate run that is not list-only ends with a non-zero status
\* exactly when at least one module is recorded as failed, and so whenever
\* the two extractions of some module disagree.
C13_ExitIffFailed ==
    (pc = "return_all" /\ ~args.list_only) =>
        /\ exit_status # ExitStatus(0)
              <=> \E k \in 1..Len(results) : results[k].status = "failed"
        /\ (\E k \in 1..Len(module_files) : Disagree(module_files[k]))
              => exit_status # ExitStatus(0)

\* a run with a passed module, a skipped module and a module whose non-empty
\* catalog differs from its regex set
C13_Witness ==
    /\ pc = "return_all"
    /\ ~args.list_only
    /\ exit_status = ExitStatus(1)
    /\ \E k \in 1..Len(results) : results[k].status = "passed"
    /\ \E k \in 1..Len(results) : results[k].status = "skipped"
    /\ \E k \in 1..Len(results) :
          /\ Disagree(ModuleOf(k))
          /\ ModuleOf(k).cat # <<>>
          /\ ModuleOf(k).heuristic # {}

\* C18: when the compiler exits with any non-zero status, or with empty
\* output, the module is recorded as failed and no catalog is extracted from
\* that output.
C18_NonZeroOrEmptyFails ==
    \A k \in 1..Len(results) :
        (/\ ModuleOf(k).outcome = "exited"
         /\ ModuleOf(k).returncode # 0 \/ ModuleOf(k).empty)
        => /\ results[k].status = "failed"
           /\ ~DumpUsable("validate_exports", ModuleOf(k).outcome,
                          ModuleOf(k).returncode, ModuleOf(k).empty)

\* ------------------------------------------------------------ the catalog, read as the specification reads it
\* the kinds an ExportedSymbol may have
ClosedKinds ==
    {"function", "function-template", "class", "class-template", "struct",
     "type-alias", "variable", "namespace", "unknown"}

\* C16: every symbol of every returned catalog has a kind of the closed set;
\* a kind token of the dump outside the recognised ones is recorded as
\* unknown and never stored as it stands.
C16_KindInClosedSet ==
    pc = "parsed" =>
        \A c \in 1..Len(catalog) : catalog[c].kind \in ClosedKinds

\* C19: the catalog parse_ast_exports returns is in strictly ascending order
\* of symbol name, in whatever order the dump holds the symbols.
C19_SortedAscending ==
    (pc = "parsed" /\ script = "validate_exports") =>
        \A a \in 1..(Len(catalog) - 1) :
            StrLess(catalog[a].name, catalog[a + 1].name)

\* the scan emitted a larger name before a smaller one
C19_Witness ==
    /\ pc = "parsed"
    /\ script = "validate_exports"
    /\ Len(catalog) >= 2
    /\ \E a \in 1..Len(exports) : \E b \in 1..Len(exports) :
          a < b /\ StrLess(exports[b].name, exports[a].name)

\* ------------------------------------------------------------ source text
\* the most lines of a module's source file
MaxSrc == 3

\* A source line is a record of what the import patterns look at:
\*   using  the line is optional blanks, "using", blanks and "std::"
\*   path   the identifiers that follow, written with "::" between them
\*   semi   optional blanks and ";" follow the path
SrcMk(using, path, semi) == [using |-> using, path |-> path, semi |-> semi]

SrcUse(path) == SrcMk(TRUE, path, TRUE)

X == Id("x")

\* "using std::f;", "using std::x::f;", "using std::x::x::g;",
\* "using std::f" and a line that is no import
SrcLines ==
    {SrcUse(<<F>>), SrcUse(<<X, F>>), SrcUse(<<X, X, G>>),
     SrcMk(TRUE, <<F>>, FALSE), SrcMk(FALSE, <<>>, FALSE)}

\* the text of a path: its identifiers with the scope operator between them
RECURSIVE Join(_)
Join(path) ==
    IF Len(path) = 1 THEN path[1]
    ELSE path[1] \o <<"::">> \o Join(Tail(path))

\* re.match of the script's pattern on one line, as the set of what group 1
\* captures (empty when the line does not match):
\*   symbol_coverage        \s*using\s+std::(\w+(?:::\w+)*)\s*;
\*   validate_exports       \s*using\s+std::(?:\w+::)*(\w+)\s*;
\*   clang_ast_dump_parser  \s*using\s+std::(\w+)\s*;
\*   (and validate_with_ast_dump.quick_regex_extract, the same pattern)
RegexCapture(scr, l) ==
    IF ~(l.using /\ Len(l.path) >= 1 /\ l.semi) THEN {}
    ELSE IF scr = "symbol_coverage" THEN {Join(l.path)}
    ELSE IF scr = "validate_exports" THEN {l.path[Len(l.path)]}
    ELSE IF Len(l.path) = 1 THEN {l.path[1]}
    ELSE {}

\* `for line in f`, from line k (from 0) on
RECURSIVE ExtractLines(_, _, _, _)
ExtractLines(acc, src, k, scr) ==
    IF k >= Len(src) THEN acc
    ELSE ExtractLines(acc \cup RegexCapture(scr, LineAt(src, k)), src, k + 1, scr)

\* `exports = set()` at the entry of an extractor, whatever an earlier call
\* has left
EntryExports(prev) == {}

\* the next line of the open file
ReadLine ==
    /\ pc = "extract"
    /\ Len(source) < MaxSrc
    /\ \E l \in SrcLines :
          /\ source' = Append(source, l)
          /\ src_exports' = src_exports \cup RegexCapture(script, l)
    /\ UNCHANGED <<pc, usages, coverage, totals>>
    /\ UNCHANGED <<parseVars, mainVars, again>>

\* ------------------------------------------------------------ symbol_coverage.main
\* the most references to one symbol in a test file
MaxCount == 2

\* `(used / total * 100) if total > 0 else 0` as a fraction
Pct(n, d) == IF d > 0 THEN <<n * 100, d>> ELSE <<0, 1>>

\* usages.get(symbol, 0)
CountOf(u, symbol) == IF symbol \in DOMAIN u THEN u[symbol] ELSE 0

\* `for symbol in sorted(exports)`: the order only orders the printed lines
RECURSIVE CoverageLoop(_, _, _)
CoverageLoop(todo, u, acc) ==
    IF todo = {} THEN acc
    ELSE LET symbol == CHOOSE s \in todo : TRUE IN
         CoverageLoop(todo \ {symbol}, u,
            IF CountOf(u, symbol) > 0
            THEN [acc EXCEPT !.used_symbols = @ \cup {symbol}]
            ELSE [acc EXCEPT !.unused_symbols = @ \cup {symbol}])

\* mutant: a symbol counts as used from its second reference on
AnalyzeCoverageTwo(exps, u) ==
    [by |-> "analyze_coverage",
     used |-> Cardinality({s \in exps : CountOf(u, s) > 1}),
     total |-> Cardinality(exps),
     unused |-> {s \in exps : CountOf(u, s) <= 1},
     coverage_pct |-> Pct(Cardinality({s \in exps : CountOf(u, s) > 1}),
                          Cardinality(exps))]

\* analyze_coverage from `if not exports` on: (used, total, unused_symbols)
\* and the percentage it prints
AnalyzeCoverage(exps, u) ==
    IF exps = {}
    THEN [by |-> "analyze_coverage", used |-> 0, total |-> 0, unused |-> {},
          coverage_pct |-> NoPct]
    ELSE LET r == CoverageLoop(exps, u, [used_symbols |-> {}, unused_symbols |-> {}])
         IN  [by |-> "analyze_coverage",
              used |-> Cardinality(r.used_symbols),
              total |-> Cardinality(exps),
              unused |-> r.unused_symbols,
              coverage_pct |-> Pct(Cardinality(r.used_symbols), Cardinality(exps))]

InitCov ==
    /\ pc = "main"
    /\ ParserIdle("symbol_coverage")
    /\ MainIdle
    /\ CovIdle
    /\ again = NotAgain

\* main: the form of sys.argv; analyze_all_modules down to its loop
CovMain ==
    /\ pc = "main"
    /\ \E form \in {"all", "pair", "usage"} :
          /\ args' = [prog |-> "symbol_coverage", form |-> form]
          /\ CASE form = "usage" ->
                    Exit("exit_usage", 1) /\ module_files' = module_files
               [] form = "pair" ->
                    /\ pc' = "open"
                    /\ module_files' = <<1>>
                    /\ exit_status' = exit_status
               [] form = "all" ->
                    /\ pc' = "next"
                    /\ \E n \in 0..MaxModules : module_files' = [k \in 1..n |-> k]
                    /\ exit_status' = exit_status
    /\ UNCHANGED <<module_index, passed, failed, skipped, results>>
    /\ UNCHANGED <<parseVars, covVars, again>>

\* `for module_file in sorted(module_files)`: a module without a test file
\* is passed over
NextModule ==
    /\ pc = "next"
    /\ module_index < Len(module_files)
    /\ \E test_exists \in BOOLEAN :
          IF test_exists
          THEN pc' = "open" /\ module_index' = module_index
          ELSE pc' = pc /\ module_index' = module_index + 1
    /\ UNCHANGED <<args, module_files, passed, failed, skipped, results,
                   exit_status>>
    /\ UNCHANGED <<parseVars, covVars, again>>

\* extract_exports opens the module file; sys.exit(1) when that fails
OpenModule ==
    /\ pc = "open"
    /\ \E opened \in {"ok", "missing", "unreadable"} :
          IF opened = "ok"
          THEN /\ pc' = "extract"
               /\ exit_status' = exit_status
          ELSE Exit("sys_exit", 1)
    /\ source' = <<>>
    /\ src_exports' = EntryExports(src_exports)
    /\ UNCHANGED <<usages, coverage, totals>>
    /\ UNCHANGED <<args, module_files, module_index, passed, failed, skipped,
                   results>>
    /\ UNCHANGED <<parseVars, again>>

\* the end of the module file, then analyze_coverage from `if not exports`
\* on: find_symbol_usages opens the test file, sys.exit(1) when that fails
Analyze ==
    /\ pc = "extract"
    /\ script = "symbol_coverage"
    /\ source' = <<>>
    /\ IF src_exports = {}
       THEN /\ usages' = <<>>
            /\ coverage' = AnalyzeCoverage(src_exports, <<>>)
            /\ pc' = "analyzed"
            /\ exit_status' = exit_status
       ELSE \E opened \in {"ok", "missing", "unreadable"} :
               IF opened = "ok"
               THEN /\ \E u \in [src_exports -> 0..MaxCount] :
                          /\ usages' = u
                          /\ coverage' = AnalyzeCoverage(src_exports, u)
                    /\ pc' = "analyzed"
                    /\ exit_status' = exit_status
               ELSE /\ Exit("sys_exit", 1)
                    /\ UNCHANGED <<usages, coverage>>
    /\ UNCHANGED <<src_exports, totals>>
    /\ UNCHANGED <<args, module_files, module_index, passed, failed, skipped,
                   results>>
    /\ UNCHANGED <<parseVars, again>>

\* analyze_coverage has returned: to main (sys.exit(0)), or to the loop of
\* analyze_all_modules and its totals (the call's values are gone then)
Analyzed ==
    /\ pc = "analyzed"
    /\ IF args.form = "pair"
       THEN /\ Exit("exit_pair", 0)
            /\ UNCHANGED <<totals, module_index, src_exports, usages, coverage>>
       ELSE /\ totals' = [totals EXCEPT
                            !.total_used = @ + coverage.used,
                            !.total_symbols = @ + coverage.total,
                            !.all_perfect = @ /\ coverage.unused = {}]
            /\ module_index' = module_index + 1
            /\ pc' = "next"
            /\ exit_status' = exit_status
            /\ src_exports' = {}
            /\ usages' = <<>>
            /\ coverage' = NoCoverage
    /\ UNCHANGED source
    /\ UNCHANGED <<args, module_files, passed, failed, skipped, results>>
    /\ UNCHANGED <<parseVars, again>>

\* the loop of analyze_all_modules is over (or there was no module file):
\* the overall summary and sys.exit(0)
AllAnalyzed ==
    /\ pc = "next"
    /\ module_index = Len(module_files)
    /\ totals' = [totals EXCEPT
                    !.overall_pct = IF module_files = <<>> THEN @
                                    ELSE Pct(totals.total_used, totals.total_symbols)]
    /\ Exit("exit_all", 0)
    /\ UNCHANGED <<source, src_exports, usages, coverage>>
    /\ UNCHANGED <<args, module_files, module_index, passed, failed, skipped,
                   results>>
    /\ UNCHANGED <<parseVars, again>>

NextCov ==
    \/ CovMain
    \/ NextModule
    \/ OpenModule
    \/ ReadLine
    \/ Analyze
    \/ Analyzed
    \/ AllAnalyzed

SpecCov == InitCov /\ [][NextCov]_vars

\* ------------------------------------------------------------ coverage, read as the specification reads it
\* C14: a coverage run, over one module/test pair or over all modules, ends
\* with status 0 whatever it finds and whatever file is missing or unreadable.
C14_AlwaysSuccess ==
    pc \in {"exit_pair", "exit_all", "sys_exit"} => exit_status = ExitStatus(0)

\* C15: analyze_coverage returns used = the number of symbols with at least
\* one recorded usage, total = the number of exported symbols and unused =
\* the symbols without usage, so that used + |unused| = total; the coverage
\* is used/total, and with no symbol nothing is divided and it is 0.
C15_CoverageCounts ==
    /\ pc = "analyzed" =>
          /\ coverage.total = Cardinality(src_exports)
          /\ coverage.used =
                Cardinality({s \in src_exports : CountOf(usages, s) >= 1})
          /\ coverage.unused = {s \in src_exports : CountOf(usages, s) = 0}
          /\ coverage.used + Cardinality(coverage.unused) = coverage.total
          /\ coverage.total > 0 =>
                coverage.coverage_pct = <<coverage.used * 100, coverage.total>>
          /\ coverage.total = 0 =>
                coverage.used = 0 /\ coverage.coverage_pct # ZeroDivision
    /\ (pc = "exit_all" /\ module_files # <<>> /\ totals.total_symbols = 0) =>
          totals.overall_pct = <<0, 1>>

\* several symbols, one of them referenced once and one never
C15_Witness ==
    /\ pc = "analyzed"
    /\ coverage.total >= 2
    /\ \E s \in src_exports : usages[s] = 1
    /\ \E s \in src_exports : usages[s] = 0
    /\ coverage.used >= 1
    /\ coverage.unused # {}

\* a line of the qualifying-import pattern: blanks, the keyword, a scoped
\* name that ends in an identifier, the terminator
QualifyingImport(l) == l.using /\ Len(l.path) >= 1 /\ l.semi

FinalSegment(l) == l.path[Len(l.path)]

HasScope(name) == \E n \in 1..Len(name) : name[n] = "::"

\* C17: the heuristic set holds, for every line of the qualifying-import
\* pattern, exactly its final identifier, whatever the number of namespace
\* segments before it, and nothing that contains a scope operator.
C17_FinalSegmentOnly ==
    pc = "extract" =>
        /\ src_exports =
              {FinalSegment(source[k]) :
                  k \in {j \in 1..Len(source) : QualifyingImport(source[j])}}
        /\ \A s \in src_exports : ~HasScope(s)

\* ------------------------------------------------------------ two calls of one extraction
\* mutant: the second call goes on from what the first call left
EntryLocalsKept(prev) == prev

\* the accumulating list outlives the call, as a list built once would
EntryLocalsSharedList(prev) == [InitLocals EXCEPT !.exports = prev.exports]

\* the locals a dump parser sets before its loop, whatever an earlier call
\* has left
EntryLocals(prev) == InitLocals

TwiceLines ==
    {ExportT, TopOther, NsStd, Use(F, 3), Use(G, 5),
     Shadow(F, "Function"), Shadow(G, "CXXRecord")}

\* a dump is at hand and the parser is called on it
InitTwice ==
    /\ pc = "scan"
    /\ script \in Scripts
    /\ lines = <<>>
    /\ in_export_decl = InitLocals.in_export_decl
    /\ in_namespace_std = InitLocals.in_namespace_std
    /\ current_using_decl = InitLocals.current_using_decl
    /\ exports = InitLocals.exports
    /\ catalog = <<>>
    /\ report = NoReport
    /\ MainIdle
    /\ CovIdle
    /\ again = NotAgain

\* the parser is called once more on the same dump and module name
ParseAgain ==
    /\ pc = "parsed"
    /\ again' = [again EXCEPT
                   !.parsed = TRUE,
                   !.catalog =
                       Returned(ScanLines(EntryLocals(Locals), lines, 0,
                                          Len(lines), script).exports,
                                script)]
    /\ UNCHANGED <<pc, parseVars, mainVars, covVars>>

\* the script's regex extractor opens the module's source; the parser's
\* locals and the dump are gone
OpenSource ==
    /\ pc = "parsed"
    /\ pc' = "extract"
    /\ lines' = <<>>
    /\ in_export_decl' = InitLocals.in_export_decl
    /\ in_namespace_std' = InitLocals.in_namespace_std
    /\ current_using_decl' = InitLocals.current_using_decl
    /\ exports' = InitLocals.exports
    /\ source' = <<>>
    /\ src_exports' = EntryExports(src_exports)
    /\ UNCHANGED <<script, catalog, report, usages, coverage, totals>>
    /\ UNCHANGED <<mainVars, again>>

\* the end of the source file: the extractor returns its set
CloseSource ==
    /\ pc = "extract"
    /\ pc' = "extracted"
    /\ UNCHANGED <<parseVars, mainVars, covVars, again>>

\* the extractor is called once more on the same source
ExtractAgain ==
    /\ pc = "extracted"
    /\ again' = [again EXCEPT
                   !.extracted = TRUE,
                   !.regex_exports =
                       ExtractLines(EntryExports(src_exports), source, 0, script)]
    /\ UNCHANGED <<pc, parseVars, mainVars, covVars>>

NextTwice ==
    \/ ScanChunk(Singles(TwiceLines))
    \/ Finish
    \/ ParseAgain
    \/ OpenSource
    \/ ReadLine
    \/ CloseSource
    \/ ExtractAgain

SpecTwice == InitTwice /\ [][NextTwice]_vars

Last == Len(lines) - 1

Before == LocAt(Last)

Scanning == pc = "scan" /\ Len(lines) >= 1

\* C22: a shadow-declaration line scanned while no name is pending, or
\* while the pending name is another identifier than the line's, emits
\* nothing and leaves the pending name and the catalog as they were.
C22_ForeignShadowInert ==
    (/\ Scanning
     /\ L(Last).node = "UsingShadowDecl"
     /\ \/ Before.current_using_decl = None
        \/ L(Last).quoted # Before.current_using_decl)
        => /\ exports = Before.exports
           /\ current_using_decl = Before.current_using_decl

\* f is pending in the export block and the namespace, a symbol is already
\* recorded, and the line is the shadow line of g
C22_Witness ==
    /\ Scanning
    /\ Before.in_export_decl /\ Before.in_namespace_std
    /\ Before.current_using_decl = F
    /\ Len(Before.exports) = 1
    /\ ShadowLineFor(L(Last), G)
    /\ current_using_decl = F

\* C24: while the scanner is Outside, a line that is no export marker of
\* the target module changes nothing: namespace, import and shadow lines
\* leave the in-namespace flag, the pending name and the accumulating
\* catalog (and the in-export flag) as they were.
C24_OutsideInert ==
    (Scanning /\ ~Before.in_export_decl /\ ~TargetMarker(L(Last)))
        => Locals = Before

\* the block was closed with f pending; the shadow line of f follows
C24_Witness ==
    /\ Scanning
    /\ ~Before.in_export_decl
    /\ Before.in_namespace_std
    /\ Before.current_using_decl = F
    /\ ShadowLineFor(L(Last), F)
    /\ exports = <<>>

\* the iteration on line l, started with the locals loc, takes the import
\* branch: the line passed the export, close, namespace and state tests and
\* fits the import pattern
RecognisedImport(loc, l, scr) ==
    /\ ~IsExportOfModule(l)
    /\ ~ClosesExport(l)
    /\ loc.in_export_decl
    /\ ~IsStdNamespace(scr, l)
    /\ loc.in_namespace_std
    /\ UsingMatches(scr, l)

\* the iteration takes the correlation step: a shadow line for the pending
\* name, scanned in the same state
MatchingShadow(loc, l, scr) ==
    /\ ~IsExportOfModule(l)
    /\ ~ClosesExport(l)
    /\ loc.in_export_decl
    /\ ~IsStdNamespace(scr, l)
    /\ loc.in_namespace_std
    /\ ~UsingMatches(scr, l)
    /\ loc.current_using_decl # None
    /\ ShadowMatches(l)
    /\ l.quoted = loc.current_using_decl

\* the number of import lines recognised in iterations i .. n-1
RECURSIVE ImportsSeen(_, _, _)
ImportsSeen(loc, i, n) ==
    IF i >= n THEN 0
    ELSE (IF RecognisedImport(loc, L(i), script) THEN 1 ELSE 0)
         + ImportsSeen(LoopBody(loc, lines, i, script), i + 1, n)

Pending == IF current_using_decl # None THEN 1 ELSE 0

\* C25: at most one name is pending and each recognised import line gives
\* rise to at most one emission: a recognised import line replaces the
\* pending name and emits nothing, the first shadow line matching the
\* pending name clears it and emits at most once, and at every point of the
\* scan the emissions, plus one if a name is pending, number at most the
\* import lines recognised so far.
C25_OneEmissionPerImport ==
    Scanning =>
        /\ current_using_decl \in Symbols \cup {None}
        /\ Len(exports) + Pending <= ImportsSeen(InitLocals, 0, Len(lines))
        /\ RecognisedImport(Before, L(Last), script)
              => /\ current_using_decl = UsingName(L(Last))
                 /\ exports = Before.exports
        /\ MatchingShadow(Before, L(Last), script)
              => /\ current_using_decl = None
                 /\ Len(exports) <= Len(Before.exports) + 1

\* one import line, its shadow line, and the shadow line of an overload
C25_Witness ==
    /\ Scanning
    /\ ImportsSeen(InitLocals, 0, Len(lines)) = 1
    /\ Len(exports) = 1
    /\ Before.in_export_decl /\ Before.in_namespace_std
    /\ Before.current_using_decl = None
    /\ ShadowLineFor(L(Last), exports[1].name)
    /\ L(Last).kind # exports[1].kind

\* C26: every entry of the returned catalog has the name captured from an
\* import line that the scan recognised, in the export block and in the
\* namespace state, and the kind token of an implicit shadow-declaration
\* line for that name scanned after that import line.
C26_CatalogSound ==
    pc = "parsed" =>
        \A n \in 1..Len(catalog) :
            \E u \in Idx :
                /\ RecognisedImport(LocAt(u), L(u), script)
                /\ UsingName(L(u)) = catalog[n].name
                /\ \E s \in (u + 1)..(Len(lines) - 1) :
                      /\ ShadowLineFor(L(s), catalog[n].name)
                      /\ L(s).kind = catalog[n].kind

\* a catalog of two symbols of different names and kinds
C26_Witness ==
    /\ pc = "parsed"
    /\ Len(catalog) = 2
    /\ catalog[1].name # catalog[2].name
    /\ catalog[1].kind # catalog[2].kind

\* a match ratio was computed / the division raised
IsRatio(p) == Len(p) = 2

Raised(p) == Len(p) = Len(ZeroDivision)

\* C27: the match ratio is never computed with a zero denominator: in
\* validate_module and compare_with_regex the division is reached only when
\* the two sets differ, and the ratio is at least 0 and below 100 per cent.
C27_RatioDefined ==
    (pc = "done" /\ report.by \in {"validate_module", "compare_with_regex"})
        => /\ ~Raised(report.match_pct)
           /\ IsRatio(report.match_pct)
                 => /\ report.clang_names # report.regex_exports
                    /\ report.match_pct[2] > 0
                    /\ report.match_pct[1] >= 0
                    /\ report.match_pct[1] < 100 * report.match_pct[2]

\* the heuristic set is empty and the catalog is not: a ratio of 0
C27_Witness ==
    /\ pc = "done"
    /\ report.by \in {"validate_module", "compare_with_regex"}
    /\ report.regex_exports = {}
    /\ report.clang_names # {}
    /\ IsRatio(report.match_pct)
    /\ report.match_pct[1] = 0

\* ---------------------------------------------------------------------
\* Dumps with other using-declaration lines inside the backward window
\* ---------------------------------------------------------------------

\* "UsingDecl ... <line:7:5> ... std::x::x::fx": an import nested deeper than
\* either import pattern accepts, of a name that holds f
UseDeep ==
    Mk(FALSE, "UsingDecl", 7, module_name, FALSE, "", None,
       <<Id("std"), X, X, FX>>)

WindowLines ==
    {ExportT, NsStd, Use(F, 3), Use(FX, 5), UseDeep, Shadow(F, "Function"),
     Shadow(FX, "CXXRecord"), OtherLine}

NextWindow == Drive(Singles(WindowLines))

SpecWindow == Init /\ [][NextWindow]_vars

\* the import line that set the name pending before iteration k: the last
\* one the scan recognised
SetterOf(k) ==
    CHOOSE u \in 0..(k - 1) :
        /\ RecognisedImport(LocAt(u), L(u), script)
        /\ \A v \in (u + 1)..(k - 1) : ~RecognisedImport(LocAt(v), L(v), script)

\* C23: the declaration line recorded for an emitted symbol S is the line
\* number embedded in the import line that set S as the pending name, also
\* when another using-declaration line inside the backward window holds S
\* as a substring.
C23_LineOfSetter ==
    (/\ Scanning
     /\ MatchingShadow(Before, L(Last), script)
     /\ Len(exports) > Len(Before.exports))
        => exports[Len(exports)].line = L(SetterOf(Last)).lineno

\* ---------------------------------------------------------------------
\* validate_all_modules with the parser run on each module's dump
\* ---------------------------------------------------------------------

\* the modules of one run
MaxSeq == 2

SeqLines == {ExportT, NsStd, Use(F, 3), Shadow(F, "Function")}

\* main has reached the loop of validate_all_modules
InitSeq ==
    /\ pc = "call"
    /\ ParserIdle("validate_exports")
    /\ \E list_only \in BOOLEAN :
          args = [prog |-> "validate_exports", module |-> FALSE,
                  list_only |-> list_only]
    /\ module_files = <<>>
    /\ module_index = 0
    /\ passed = 0
    /\ failed = 0
    /\ skipped = 0
    /\ results = <<>>
    /\ exit_status = NotExited
    /\ CovIdle
    /\ again = NotAgain

\* validate_module got the next module's dump and calls parse_ast_exports
\* on it; what the call before has left is still where it was
CallParser ==
    /\ pc = "call"
    /\ module_index < MaxSeq
    /\ pc' = "scan"
    /\ lines' = <<>>
    /\ in_export_decl' = EntryLocals(Locals).in_export_decl
    /\ in_namespace_std' = EntryLocals(Locals).in_namespace_std
    /\ current_using_decl' = EntryLocals(Locals).current_using_decl
    /\ exports' = EntryLocals(Locals).exports
    /\ catalog' = <<>>
    /\ report' = NoReport
    /\ UNCHANGED <<script, mainVars, covVars, again>>

\* validate_module from the returned catalog on
ValidateParsed ==
    /\ pc = "parsed"
    /\ pc' = "validated"
    /\ \E heuristic \in Heuristics :
          report' = ValidateModule(catalog, args.list_only, heuristic)
    /\ UNCHANGED <<script, lines, in_export_decl, in_namespace_std,
                   current_using_decl, exports, catalog>>
    /\ UNCHANGED <<mainVars, covVars, again>>

\* the loop counts the module
TallySeq(result) ==
    LET t == Tally([passed |-> passed, failed |-> failed,
                    skipped |-> skipped, results |-> results],
                   module_index + 1, result)
    IN  /\ passed' = t.passed
        /\ failed' = t.failed
        /\ skipped' = t.skipped
        /\ results' = t.results
        /\ module_index' = module_index + 1
        /\ pc' = "call"
        /\ UNCHANGED <<args, module_files, exit_status>>
        /\ UNCHANGED <<parseVars, covVars, again>>

TallyValidated ==
    /\ pc = "validated"
    /\ TallySeq(IF report.verdict = "pass" THEN "True" ELSE "False")

\* the module's dump could not be had (False) or validate_module raised
NoDump ==
    /\ pc = "call"
    /\ module_index < MaxSeq
    /\ \E result \in {"False", "Exception"} : TallySeq(result)

\* the module files are used up
LoopEnd ==
    /\ pc = "call"
    /\ Exit("return_all", ExitCode(args.list_only, passed, failed, skipped))
    /\ UNCHANGED <<args, module_files, module_index, passed, failed, skipped,
                   results>>
    /\ UNCHANGED <<parseVars, covVars, again>>

NextSeq ==
    \/ CallParser
    \/ ScanChunk(Singles(SeqLines))
    \/ Finish
    \/ ValidateParsed
    \/ TallyValidated
    \/ NoDump
    \/ LoopEnd

SpecSeq == InitSeq /\ [][NextSeq]_vars

\* the catalog of the dump at hand, parsed in a run of its own
Alone == Returned(ScanLines(InitLocals, lines, 0, Len(lines), script).exports, script)

====
